---- MODULE Spec2Model ----
(***************************************************************************)
(* Model of integrations/comfyui_integration.py: the ComfyUIMeshAgent node *)
(* that registers with the Agent Mesh, announces itself, polls for         *)
(* messages, dispatches inference requests to ComfyUI and sends the        *)
(* results back.  One thread runs start(); another thread may call stop(). *)
(***************************************************************************)
EXTENDS Integers, Sequences, FiniteSets, TLC

\* ------------------------------------------------------------------ bounds
\* Longest batch one poll returns.
MaxBatch == 2

\* --------------------------------------------------------------- constants
AGENT_NAME == "ComfyUI-Mesh-Agent"
\* Python's None, where it is compared with strings.
NoneVal == "None"
\* time.sleep(10) after a completed batch, time.sleep(30) in the handler.
PollInterval == 10
BackoffInterval == 30
HttpOk == 200

\* ------------------------------------------------------- message contents
\* The raw "content" strings the mesh may deliver (JSON text, or not).
ImgContent == "{\"type\":\"inference_request\",\"request_type\":\"image_generation\",\"prompt\":{\"positive\":\"a cat\"}}"
ImgNoPromptContent == "{\"type\":\"inference_request\",\"request_type\":\"image_generation\"}"
VidContent == "{\"type\":\"inference_request\",\"request_type\":\"video_generation\",\"prompt\":{\"prompt\":\"waves\"},\"options\":{\"frames\":49}}"
DistContent == "{\"type\":\"inference_request\",\"request_type\":\"distributed_inference\",\"prompt\":{\"1\":\"node\"},\"options\":{\"worker_ids\":[\"w1\",\"w2\"]}}"
UnknownContent == "{\"type\":\"inference_request\",\"request_type\":\"upscale\",\"prompt\":{\"positive\":\"a cat\"}}"
NoKindContent == "{\"type\":\"inference_request\"}"
OtherTypeContent == "{\"type\":\"status_update\",\"status\":\"busy\"}"
BadJsonContent == "{not json"
ListContent == "[1]"

\* A Python dict with no keys.
EmptyDict == [k \in {} |-> 0]

\* dict.get(k, default)
Get(d, k, default) == IF k \in DOMAIN d THEN d[k] ELSE default

\* json.loads on the contents above: ok = FALSE when it raises
\* JSONDecodeError; isdict tells a JSON object from any other JSON value.
JsonLoads(s) ==
    CASE s = "{}" -> [ok |-> TRUE, isdict |-> TRUE, val |-> EmptyDict]
      [] s = ImgContent ->
            [ok |-> TRUE, isdict |-> TRUE,
             val |-> [type |-> "inference_request",
                      request_type |-> "image_generation",
                      prompt |-> [positive |-> "a cat"]]]
      [] s = ImgNoPromptContent ->
            [ok |-> TRUE, isdict |-> TRUE,
             val |-> [type |-> "inference_request",
                      request_type |-> "image_generation"]]
      [] s = VidContent ->
            [ok |-> TRUE, isdict |-> TRUE,
             val |-> [type |-> "inference_request",
                      request_type |-> "video_generation",
                      prompt |-> [prompt |-> "waves"],
                      options |-> [frames |-> 49]]]
      [] s = DistContent ->
            [ok |-> TRUE, isdict |-> TRUE,
             val |-> [type |-> "inference_request",
                      request_type |-> "distributed_inference",
                      prompt |-> [n1 |-> "node"],
                      options |-> [worker_ids |-> <<"w1", "w2">>]]]
      [] s = UnknownContent ->
            [ok |-> TRUE, isdict |-> TRUE,
             val |-> [type |-> "inference_request",
                      request_type |-> "upscale",
                      prompt |-> [positive |-> "a cat"]]]
      [] s = NoKindContent ->
            [ok |-> TRUE, isdict |-> TRUE,
             val |-> [type |-> "inference_request"]]
      [] s = OtherTypeContent ->
            [ok |-> TRUE, isdict |-> TRUE,
             val |-> [type |-> "status_update", status |-> "busy"]]
      [] s = ListContent ->
            [ok |-> TRUE, isdict |-> FALSE, val |-> <<1>>]
      [] OTHER -> [ok |-> FALSE]

\* The messages a poll may return: dicts with a sender and (mostly) a content.
Messages ==
    { [sender |-> "agent-a", content |-> ImgContent],
      [sender |-> "agent-b", content |-> ImgNoPromptContent],
      [sender |-> "agent-b", content |-> VidContent],
      [sender |-> "agent-a", content |-> DistContent],
      [sender |-> "agent-b", content |-> UnknownContent],
      [sender |-> "agent-a", content |-> NoKindContent],
      [sender |-> "agent-a", content |-> OtherTypeContent],
      [sender |-> "agent-b"],
      [sender |-> "agent-a", content |-> BadJsonContent],
      [sender |-> "agent-b", content |-> ListContent] }

\* All batches of at most MaxBatch messages.
Batches == UNION { [1..n -> Messages] : n \in 0..MaxBatch }

\* ------------------------------------------------------- external replies
\* What an HTTP call can come back with: an exception (timeout, connection
\* error; exc = TRUE) or a status code with a decoded JSON body.
RegisterReplies ==
    { [exc |-> FALSE, status |-> 200, data |-> [agentId |-> "node-7"]],
      [exc |-> FALSE, status |-> 200, data |-> [note |-> "no id"]],
      [exc |-> FALSE, status |-> 503, data |-> [note |-> "unavailable"]],
      [exc |-> TRUE, status |-> 0, data |-> [note |-> "timeout"]] }

BroadcastReplies ==
    { [exc |-> FALSE, status |-> 200],
      [exc |-> FALSE, status |-> 500],
      [exc |-> TRUE, status |-> 0] }

\* Replies of ComfyUI to POST /api/prompt and POST /distributed/queue.
BackendReplies ==
    { [exc |-> FALSE, status |-> 200,
       data |-> [prompt_id |-> "job-1", worker_count |-> 2]],
      [exc |-> FALSE, status |-> 500, data |-> [note |-> "server error"]],
      [exc |-> TRUE, status |-> 0, data |-> [note |-> "timeout"]] }

\* Outcome of POST /api/messages/send: TRUE when requests.post returns.
SendReplies == { [exc |-> FALSE], [exc |-> TRUE] }

\* ---------------------------------------------------------- Python values
\* None where a dict is expected (a prompt, an options mapping, a response).
NoneObj == [none |-> TRUE]
IsNone(o) == "none" \in DOMAIN o

\* The test of the loop body inverted.
TruthyInverted(response) == IsNone(response)

\* The loop body without its test.
TruthyAlways(response) == TRUE

\* `if response:` in listen_for_requests: None and the empty dict are falsy.
Truthy(response) == ~IsNone(response) /\ DOMAIN response # {}

\* The InferenceResult status a result dict stands for: the code marks a
\* failure by the "error" key and a success by its "status" key.
ResultStatus(result) ==
    IF "error" \in DOMAIN result THEN "error" ELSE Get(result, "status", NoneVal)

\* ------------------------------------------------------------- job graphs
\* An image workflow whose sampler settings are fixed, as the video one's.
ImageWorkflowFixedSampler(prompt, options) ==
    [ positive |-> Get(prompt, "positive", ""),
      negative |-> Get(prompt, "negative", "bad quality"),
      seed |-> Get(options, "seed", 42),
      steps |-> 20,
      cfg |-> 8,
      sampler_name |-> "euler",
      ckpt_name |-> Get(options, "model", "sd_xl_base_1.0.safetensors"),
      width |-> Get(options, "width", 1024),
      height |-> Get(options, "height", 1024),
      filename_prefix |-> Get(options, "filename", "mesh_generated") ]

\* The workflow generate_image builds (nodes 3..9), by its variable inputs.
ImageWorkflow(prompt, options) ==
    [ positive |-> Get(prompt, "positive", ""),
      negative |-> Get(prompt, "negative", "bad quality"),
      seed |-> Get(options, "seed", 42),
      steps |-> Get(options, "steps", 20),
      cfg |-> Get(options, "cfg", 8),
      sampler_name |-> Get(options, "sampler", "euler"),
      ckpt_name |-> Get(options, "model", "sd_xl_base_1.0.safetensors"),
      width |-> Get(options, "width", 1024),
      height |-> Get(options, "height", 1024),
      filename_prefix |-> Get(options, "filename", "mesh_generated") ]

\* The workflow generate_video builds, by its variable inputs.
VideoWorkflow(prompt, options) ==
    [ text |-> Get(prompt, "prompt", ""),
      width |-> Get(options, "width", 1280),
      height |-> Get(options, "height", 704),
      length |-> Get(options, "frames", 125),
      seed |-> Get(options, "seed", 77777),
      steps |-> 20,
      cfg |-> 5,
      sampler_name |-> "uni_pc",
      fps |-> 24,
      filename_prefix |-> Get(options, "filename", "mesh_video") ]

\* The payload queue_distributed_workflow posts.
DistributedPayload(workflow, options) ==
    [ prompt |-> workflow,
      client_id |-> "mesh-distributed",
      delegate_master |-> Get(options, "delegate_master", FALSE),
      enabled_worker_ids |-> Get(options, "worker_ids", <<>>) ]

\* ------------------------------------------------------ backend submission
\* The three submission methods, as functions of the backend's reply.  Each
\* returns [posted, url, body, result]: posted tells whether requests.post
\* was reached (building the workflow raises when prompt is None).
\* generate_image without the status check: any reply counts as queued.
generate_image_status_unchecked(prompt, options, reply) ==
    IF IsNone(prompt)
    THEN [posted |-> FALSE, result |-> [error |-> "AttributeError"]]
    ELSE [posted |-> TRUE,
          url |-> "/api/prompt",
          body |-> [prompt |-> ImageWorkflow(prompt, options),
                    client_id |-> "mesh-agent"],
          result |-> [status |-> "queued",
                      prompt_id |-> Get(reply.data, "prompt_id", NoneVal)]]

generate_image(prompt, options, reply) ==
    IF IsNone(prompt)
    THEN [posted |-> FALSE, result |-> [error |-> "AttributeError"]]
    ELSE [posted |-> TRUE,
          url |-> "/api/prompt",
          body |-> [prompt |-> ImageWorkflow(prompt, options),
                    client_id |-> "mesh-agent"],
          result |->
            IF reply.exc THEN [error |-> "RequestException"]
            ELSE IF reply.status = HttpOk
            THEN [status |-> "queued",
                  prompt_id |-> Get(reply.data, "prompt_id", NoneVal)]
            ELSE [error |-> "ComfyUI error: " \o ToString(reply.status)]]

\* generate_video reporting a rejected job as a status of its own.
generate_video_failed_status(prompt, options, reply) ==
    IF IsNone(prompt)
    THEN [posted |-> FALSE, result |-> [error |-> "AttributeError"]]
    ELSE [posted |-> TRUE,
          url |-> "/api/prompt",
          body |-> [prompt |-> VideoWorkflow(prompt, options),
                    client_id |-> "mesh-agent-video"],
          result |->
            IF reply.exc THEN [error |-> "RequestException"]
            ELSE IF reply.status = HttpOk
            THEN [status |-> "queued",
                  prompt_id |-> Get(reply.data, "prompt_id", NoneVal)]
            ELSE [status |-> "failed",
                  prompt_id |-> Get(reply.data, "prompt_id", NoneVal)]]

generate_video(prompt, options, reply) ==
    IF IsNone(prompt)
    THEN [posted |-> FALSE, result |-> [error |-> "AttributeError"]]
    ELSE [posted |-> TRUE,
          url |-> "/api/prompt",
          body |-> [prompt |-> VideoWorkflow(prompt, options),
                    client_id |-> "mesh-agent-video"],
          result |->
            IF reply.exc THEN [error |-> "RequestException"]
            ELSE IF reply.status = HttpOk
            THEN [status |-> "queued",
                  prompt_id |-> Get(reply.data, "prompt_id", NoneVal)]
            ELSE [error |-> "ComfyUI error: " \o ToString(reply.status)]]

\* queue_distributed_workflow with every worker enabled whatever was asked.
queue_distributed_workflow_all_workers(workflow, options, reply) ==
    [posted |-> TRUE,
     url |-> "/distributed/queue",
     body |-> [DistributedPayload(workflow, options)
                 EXCEPT !.enabled_worker_ids = <<>>],
     result |->
       IF reply.exc THEN [error |-> "RequestException"]
       ELSE IF reply.status = HttpOk
       THEN [status |-> "distributed_queued",
             prompt_id |-> Get(reply.data, "prompt_id", NoneVal),
             worker_count |-> Get(reply.data, "worker_count", 1)]
       ELSE [error |-> "Distributed API error: " \o ToString(reply.status)]]

queue_distributed_workflow(workflow, options, reply) ==
    [posted |-> TRUE,
     url |-> "/distributed/queue",
     body |-> DistributedPayload(workflow, options),
     result |->
       IF reply.exc THEN [error |-> "RequestException"]
       ELSE IF reply.status = HttpOk
       THEN [status |-> "distributed_queued",
             prompt_id |-> Get(reply.data, "prompt_id", NoneVal),
             worker_count |-> Get(reply.data, "worker_count", 1)]
       ELSE [error |-> "Distributed API error: " \o ToString(reply.status)]]

\* -------------------------------------------------------------- dispatch
KnownKinds == {"image_generation", "video_generation", "distributed_inference"}

\* An if/elif chain whose last branch falls through to the image path.
route_request_default_image(request_type, prompt, options, reply) ==
    IF request_type = "video_generation"
    THEN generate_video(prompt, options, reply)
    ELSE IF request_type = "distributed_inference"
    THEN queue_distributed_workflow(prompt, options, reply)
    ELSE generate_image(prompt, options, reply)

\* The if/elif chain of process_inference_request over request_type.
route_request(request_type, prompt, options, reply) ==
    IF request_type = "image_generation"
    THEN generate_image(prompt, options, reply)
    ELSE IF request_type = "video_generation"
    THEN generate_video(prompt, options, reply)
    ELSE IF request_type = "distributed_inference"
    THEN queue_distributed_workflow(prompt, options, reply)
    ELSE [posted |-> FALSE,
          result |-> [error |-> "Unknown request type: " \o request_type]]

\* process_inference_request as a function of the message and of the reply
\* the backend gives if it is asked.  Returns [posted, url, body, result];
\* result is NoneObj for the `return None` of a foreign message type.
process_inference_request(message, reply) ==
    LET parsed == JsonLoads(Get(message, "content", "{}")) IN
    IF ~parsed.ok
    THEN [posted |-> FALSE, result |-> [error |-> "JSONDecodeError"]]
    ELSE IF ~parsed.isdict
    THEN [posted |-> FALSE, result |-> [error |-> "AttributeError"]]
    ELSE
      LET content == parsed.val IN
      IF Get(content, "type", NoneVal) # "inference_request"
      THEN [posted |-> FALSE, result |-> NoneObj]
      ELSE route_request(Get(content, "request_type", NoneVal),
                         Get(content, "prompt", NoneObj),
                         Get(content, "options", EmptyDict),
                         reply)

\* send_response addressing the response by the message's recipient field.
send_response_to_recipient(original_message, response) ==
    LET parsed == JsonLoads(Get(original_message, "content", "{}")) IN
    IF ~parsed.ok
    THEN [raised |-> TRUE]
    ELSE [raised |-> FALSE,
          payload |-> [content |-> [type |-> "inference_response",
                                    original_request |-> parsed.val,
                                    response |-> response],
                       sender |-> AGENT_NAME,
                       recipient |-> Get(original_message, "recipient", NoneVal),
                       priority |-> "normal"]]

\* send_response up to the transport call: json.loads of the content is
\* outside the try block, so raised = TRUE propagates to the caller.
send_response(original_message, response) ==
    LET parsed == JsonLoads(Get(original_message, "content", "{}")) IN
    IF ~parsed.ok
    THEN [raised |-> TRUE]
    ELSE [raised |-> FALSE,
          payload |-> [content |-> [type |-> "inference_response",
                                    original_request |-> parsed.val,
                                    response |-> response],
                       sender |-> AGENT_NAME,
                       recipient |-> Get(original_message, "sender", NoneVal),
                       priority |-> "normal"]]

\* ------------------------------------------------------- registry / channel
\* A registration that reports success whatever the registry answered.
register_with_mesh_always_true(agent_id, reply) ==
    [ret |-> TRUE,
     mesh_agent_id |-> IF reply.exc THEN agent_id
                       ELSE Get(reply.data, "agentId", NoneVal)]

\* A registration that forgets the id when the call fails.
register_with_mesh_reset_on_failure(agent_id, reply) ==
    IF reply.exc
    THEN [ret |-> FALSE, mesh_agent_id |-> NoneVal]
    ELSE IF reply.status = HttpOk
    THEN [ret |-> TRUE, mesh_agent_id |-> Get(reply.data, "agentId", NoneVal)]
    ELSE [ret |-> FALSE, mesh_agent_id |-> NoneVal]

\* register_with_mesh as a function of the registry's reply: the value it
\* returns and the mesh_agent_id it leaves behind.
register_with_mesh(agent_id, reply) ==
    IF reply.exc
    THEN [ret |-> FALSE, mesh_agent_id |-> agent_id]
    ELSE IF reply.status = HttpOk
    THEN [ret |-> TRUE, mesh_agent_id |-> Get(reply.data, "agentId", NoneVal)]
    ELSE [ret |-> FALSE, mesh_agent_id |-> agent_id]

\* A broadcast whose transport failure leaves the method.
broadcast_availability_unguarded(reply) ==
    [raised |-> reply.exc, delivered |-> ~reply.exc /\ reply.status = HttpOk]

\* broadcast_availability as a function of the mesh's reply: every outcome
\* is only printed, no exception leaves the method.
broadcast_availability(reply) ==
    [raised |-> FALSE, delivered |-> ~reply.exc /\ reply.status = HttpOk]

\* Replies to GET /api/messages/{id}: a batch, a body whose "messages" is
\* null (not iterable), a non-success status (with or without a body that
\* names messages), or an exception.
PollReplies ==
    { [exc |-> FALSE, status |-> 200, iterable |-> TRUE, messages |-> b] :
        b \in Batches }
    \cup { [exc |-> FALSE, status |-> 200, iterable |-> FALSE, messages |-> <<>>],
           [exc |-> FALSE, status |-> 500, iterable |-> TRUE, messages |-> <<>>],
           [exc |-> FALSE, status |-> 500, iterable |-> TRUE,
            messages |-> <<[sender |-> "agent-a", content |-> ImgContent]>>],
           [exc |-> TRUE, status |-> 0, iterable |-> TRUE, messages |-> <<>>] }

\* check_mesh_messages without the status test.
check_mesh_messages_status_unchecked(agent_id, reply) ==
    IF agent_id = NoneVal \/ agent_id = ""
    THEN [contacted |-> FALSE, raised |-> FALSE, iterable |-> TRUE,
          messages |-> <<>>]
    ELSE IF reply.exc
    THEN [contacted |-> TRUE, raised |-> FALSE, iterable |-> TRUE,
          messages |-> <<>>]
    ELSE [contacted |-> TRUE, raised |-> FALSE, iterable |-> reply.iterable,
          messages |-> reply.messages]

\* check_mesh_messages: contacted tells whether the GET was issued, raised
\* whether an exception leaves the method (the bare except lets none out);
\* the value returned is `messages`, a list when iterable.
check_mesh_messages(agent_id, reply) ==
    IF agent_id = NoneVal \/ agent_id = ""
    THEN [contacted |-> FALSE, raised |-> FALSE, iterable |-> TRUE,
          messages |-> <<>>]
    ELSE IF reply.exc
    THEN [contacted |-> TRUE, raised |-> FALSE, iterable |-> TRUE,
          messages |-> <<>>]
    ELSE IF reply.status = HttpOk
    THEN [contacted |-> TRUE, raised |-> FALSE, iterable |-> reply.iterable,
          messages |-> reply.messages]
    ELSE [contacted |-> TRUE, raised |-> FALSE, iterable |-> TRUE,
          messages |-> <<>>]

\* ------------------------------------------------------------------ state
VARIABLES
    pc,             \* where the thread running start() is
    mesh_agent_id,  \* self.mesh_agent_id
    running,        \* self.running
    messages,       \* the batch of the cycle in progress
    idx,            \* position in the batch of `msg` (1-based)
    response,       \* `response` of the loop body
    inflight,       \* backend POSTs issued and not yet answered
    polled,         \* check_mesh_messages has been called
    events,         \* what the cycle in progress did, in order (a log,
                    \* emptied when the cycle ends with its sleep)
    sleeps,         \* the sleeps taken since the last poll
    announced,      \* broadcasts attempted by the current start()
    registered,     \* "none", "ok" or "failed": how the registration call
                    \* ended (failed: an exception or a status other than 200)
    stopCalled,     \* stop() was called after the current start() was
                    \* invoked
    stopAt,         \* where the loop was at the first stop() called while
                    \* it was running; "none" before such a call
    announceResult, \* "none", "ok" or "failed": how the last broadcast ended
                    \* (failed: an exception or a status other than 200)
    job             \* a request handed to the router on its own, with the
                    \* backend's reply and what the router made of it

vars == <<pc, mesh_agent_id, running, messages, idx, response, inflight,
          polled, events, sleeps, announced, registered, stopCalled, stopAt,
          announceResult, job>>

\* The pcs of listen_for_requests' while loop.
LoopPcs == {"head", "poll", "dispatch", "submit", "respond", "sleep", "backoff"}

\* stop() was called while the loop was running.
stopInLoop == stopAt # "none"

\* An exception in the loop body with no handler around it.
ListenHandlerMissing == "crashed"

\* A handler that treats an exception as the end of a normal cycle.
ListenHandlerNormalSleep == "sleep"

\* Where an exception raised inside the loop's try block continues:
\* the handler prints it and sleeps 30.
ListenHandler == "backoff"

\* The loop condition `while self.running`.
LoopCondition(flag) == flag

\* `for msg in messages`: the position after i.
NextPos(i) == i + 1

\* Where the for loop continues after position i of batch b.
AfterMessage(b, i) == IF NextPos(i) > Len(b) THEN "sleep" ELSE "dispatch"

\* No request is being routed on its own.
NoJob == [phase |-> "none"]

\* __init__
Init ==
    /\ pc = "init"
    /\ mesh_agent_id = NoneVal
    /\ running = FALSE
    /\ messages = <<>>
    /\ idx = 0
    /\ response = NoneObj
    /\ inflight = 0
    /\ polled = FALSE
    /\ events = <<>>
    /\ sleeps = <<>>
    /\ announced = 0
    /\ registered = "none"
    /\ stopCalled = FALSE
    /\ stopAt = "none"
    /\ announceResult = "none"
    /\ job = NoJob

\* run_mesh_integration calls start().
Start ==
    /\ pc = "init"
    /\ pc' = "register"
    /\ UNCHANGED <<mesh_agent_id, running, messages, idx, response, inflight,
                   polled, events, sleeps, announced, announceResult, job, registered, stopCalled,
                   stopAt>>

\* start(): `if self.register_with_mesh():`
Register ==
    /\ pc = "register"
    /\ \E reply \in RegisterReplies :
         LET r == register_with_mesh(mesh_agent_id, reply) IN
         /\ mesh_agent_id' = r.mesh_agent_id
         /\ registered' = IF reply.exc \/ reply.status # HttpOk
                          THEN "failed" ELSE "ok"
         /\ pc' = IF r.ret THEN "broadcast" ELSE "aborted"
    /\ UNCHANGED <<running, messages, idx, response, inflight, polled, events,
                   sleeps, announced, announceResult, job, stopCalled, stopAt>>

\* start(): self.broadcast_availability(); every outcome is only printed.
Broadcast ==
    /\ pc = "broadcast"
    /\ \E reply \in BroadcastReplies :
         LET b == broadcast_availability(reply) IN
         /\ announced' = announced + 1
         /\ announceResult' = IF b.delivered THEN "ok" ELSE "failed"
         /\ pc' = IF b.raised THEN "aborted" ELSE "listen"
    /\ UNCHANGED <<mesh_agent_id, running, messages, idx, response, inflight,
                   polled, events, sleeps, registered, stopCalled, stopAt,
                   job>>

\* listen_for_requests: self.running = True
ListenEnter ==
    /\ pc = "listen"
    /\ running' = TRUE
    /\ pc' = "head"
    /\ UNCHANGED <<mesh_agent_id, messages, idx, response, inflight, polled,
                   events, sleeps, announced, announceResult, job, registered, stopCalled,
                   stopAt>>

\* `while self.running:`
LoopHead ==
    /\ pc = "head"
    /\ pc' = IF LoopCondition(running) THEN "poll" ELSE "stopped"
    /\ UNCHANGED <<mesh_agent_id, running, messages, idx, response, inflight,
                   polled, events, sleeps, announced, announceResult, job, registered, stopCalled,
                   stopAt>>

\* messages = self.check_mesh_messages(), and the entry of the for loop.
Poll ==
    /\ pc = "poll"
    /\ \E reply \in PollReplies :
         LET r == check_mesh_messages(mesh_agent_id, reply) IN
         /\ messages' = r.messages
         /\ pc' = IF r.raised \/ ~r.iterable THEN ListenHandler
                  ELSE IF r.messages = <<>> THEN "sleep" ELSE "dispatch"
         /\ events' = <<[op |-> "poll", pos |-> 0,
                         contacted |-> r.contacted,
                         raised |-> r.raised,
                         iterable |-> r.iterable,
                         exc |-> r.contacted /\ reply.exc,
                         status |-> IF r.contacted THEN reply.status ELSE 0,
                         offered |-> IF r.contacted THEN reply.messages
                                     ELSE <<>>]>>
    /\ polled' = TRUE
    /\ idx' = 1
    /\ response' = NoneObj
    /\ sleeps' = <<>>
    /\ UNCHANGED <<mesh_agent_id, running, inflight, announced, announceResult, job, registered,
                   stopCalled, stopAt>>

\* response = self.process_inference_request(msg), up to the backend POST
\* when there is one.
Dispatch ==
    /\ pc = "dispatch"
    /\ idx <= Len(messages)
    /\ LET r == process_inference_request(messages[idx],
                                          CHOOSE x \in BackendReplies : TRUE)
       IN IF r.posted
          THEN /\ events' = events \o <<[op |-> "process", pos |-> idx],
                                        [op |-> "submit", pos |-> idx,
                                         url |-> r.url, body |-> r.body]>>
               /\ inflight' = inflight + 1
               /\ pc' = "submit"
               /\ UNCHANGED response
          ELSE /\ events' = Append(events, [op |-> "process", pos |-> idx])
               /\ response' = r.result
               /\ pc' = "respond"
               /\ UNCHANGED inflight
    /\ UNCHANGED <<mesh_agent_id, running, messages, idx, polled, sleeps,
                   announced, announceResult, job, registered, stopCalled, stopAt>>

\* The backend answers (or the call fails) and process_inference_request
\* returns the result.
SubmitReply ==
    /\ pc = "submit"
    /\ \E reply \in BackendReplies :
         /\ response' = process_inference_request(messages[idx], reply).result
         /\ events' = Append(events, [op |-> "reply", pos |-> idx,
                                      exc |-> reply.exc,
                                      status |-> reply.status])
    /\ inflight' = inflight - 1
    /\ pc' = "respond"
    /\ UNCHANGED <<mesh_agent_id, running, messages, idx, polled, sleeps,
                   announced, announceResult, job, registered, stopCalled, stopAt>>

\* `if response: self.send_response(msg, response)` and the step to the
\* next message.
Respond ==
    /\ pc = "respond"
    /\ IF Truthy(response)
       THEN LET s == send_response(messages[idx], response) IN
            IF s.raised
            THEN /\ pc' = ListenHandler
                 /\ UNCHANGED <<events, idx>>
            ELSE /\ \E reply \in SendReplies :
                      events' = Append(events,
                                       [op |-> "send", pos |-> idx,
                                        payload |-> s.payload,
                                        delivered |-> ~reply.exc])
                 /\ idx' = NextPos(idx)
                 /\ pc' = AfterMessage(messages, idx)
       ELSE /\ idx' = NextPos(idx)
            /\ pc' = AfterMessage(messages, idx)
            /\ UNCHANGED events
    /\ UNCHANGED <<mesh_agent_id, running, messages, response, inflight,
                   polled, sleeps, announced, announceResult, job, registered, stopCalled,
                   stopAt>>

\* time.sleep(10) at the end of the try block.
Sleep ==
    /\ pc = "sleep"
    /\ sleeps' = Append(sleeps, PollInterval)
    /\ events' = <<>>
    /\ pc' = "head"
    /\ UNCHANGED <<mesh_agent_id, running, messages, idx, response, inflight,
                   polled, announced, announceResult, job, registered, stopCalled, stopAt>>

\* except Exception: print and time.sleep(30).
Backoff ==
    /\ pc = "backoff"
    /\ sleeps' = Append(sleeps, BackoffInterval)
    /\ events' = <<>>
    /\ pc' = "head"
    /\ UNCHANGED <<mesh_agent_id, running, messages, idx, response, inflight,
                   polled, announced, announceResult, job, registered, stopCalled, stopAt>>

\* stop(), called by another thread at any moment.
Stop ==
    /\ running' = FALSE
    /\ stopCalled' = (stopCalled \/ pc # "init")
    /\ stopAt' = IF stopAt = "none" /\ pc \in LoopPcs THEN pc ELSE stopAt
    /\ UNCHANGED <<pc, mesh_agent_id, messages, idx, response, inflight,
                   polled, events, sleeps, announced, announceResult, job, registered>>

Next ==
    \/ Start
    \/ Register
    \/ Broadcast
    \/ ListenEnter
    \/ LoopHead
    \/ Poll
    \/ Dispatch
    \/ SubmitReply
    \/ Respond
    \/ Sleep
    \/ Backoff
    \/ Stop

Spec == Init /\ [][Next]_vars

\* The thread running start() keeps taking steps; stop() may never come.
MainThread ==
    \/ Start
    \/ Register
    \/ Broadcast
    \/ ListenEnter
    \/ LoopHead
    \/ Poll
    \/ Dispatch
    \/ SubmitReply
    \/ Respond
    \/ Sleep
    \/ Backoff

FairSpec == Spec /\ WF_vars(MainThread)

\* start() is called again on the same object after it returned (the loop
\* was stopped, or the registration failed).  Nothing in start() or
\* register_with_mesh looks at an earlier registration: the attributes
\* keep their values, the locals of the new call are fresh, and what is
\* recorded about one run of start() begins anew.
Restart ==
    /\ pc \in {"stopped", "aborted"}
    /\ pc' = "register"
    /\ messages' = <<>>
    /\ idx' = 0
    /\ response' = NoneObj
    /\ events' = <<>>
    /\ sleeps' = <<>>
    /\ announced' = 0
    /\ announceResult' = "none"
    /\ stopCalled' = FALSE
    /\ stopAt' = "none"
    /\ UNCHANGED <<mesh_agent_id, running, inflight, polled, registered, job>>

NextRestart ==
    \/ Next
    \/ Restart

\* The node with callers that may call start() more than once.
SpecRestart == Init /\ [][NextRestart]_vars

TypeOK ==
    /\ pc \in {"init", "register", "broadcast", "listen", "aborted",
               "stopped"} \cup LoopPcs
    /\ running \in BOOLEAN
    /\ inflight \in 0..1
    /\ polled \in BOOLEAN

\* ------------------------------------------------ the router on its own
\* The option names the three submission methods look up.
OptionKeys ==
    {"seed", "steps", "cfg", "sampler", "width", "height", "filename",
     "model", "frames", "worker_ids", "delegate_master"}

\* The value a requester supplies for an option, when it supplies it.
Supplied ==
    [seed |-> 7, steps |-> 30, cfg |-> 5, sampler |-> "dpmpp_2m",
     width |-> 512, height |-> 768, filename |-> "out",
     model |-> "custom.safetensors", frames |-> 49,
     worker_ids |-> <<"w1", "w2">>, delegate_master |-> TRUE]

\* The request kinds a requester may name, one of them unknown.
JobKinds == KnownKinds \cup {"upscale"}

\* The prompts a requester may send; NoneObj when it sends none.
JobPrompts ==
    { [positive |-> "a cat"],
      [positive |-> "a cat", negative |-> "blurry"],
      [prompt |-> "waves"],
      NoneObj }

\* request_type, prompt and options as process_inference_request reads
\* them from a decoded inference_request.
JobRequests ==
    { [phase |-> "asked", request_type |-> t, prompt |-> p,
       options |-> [k \in S |-> Supplied[k]]] :
        t \in JobKinds, p \in JobPrompts, S \in SUBSET OptionKeys }

\* The variables of the node proper.
node == <<pc, mesh_agent_id, running, messages, idx, response, inflight,
          polled, events, sleeps, announced, registered, stopCalled, stopAt,
          announceResult>>

\* A node that has not been started is handed one decoded request.
InitBuild ==
    /\ pc = "init"
    /\ mesh_agent_id = NoneVal
    /\ running = FALSE
    /\ messages = <<>>
    /\ idx = 0
    /\ response = NoneObj
    /\ inflight = 0
    /\ polled = FALSE
    /\ events = <<>>
    /\ sleeps = <<>>
    /\ announced = 0
    /\ registered = "none"
    /\ stopCalled = FALSE
    /\ stopAt = "none"
    /\ announceResult = "none"
    /\ job \in JobRequests

\* The if/elif chain and the chosen method up to its requests.post, or to
\* its return when nothing is posted.
Route ==
    /\ job.phase = "asked"
    /\ LET r == route_request(job.request_type, job.prompt, job.options,
                              CHOOSE x \in BackendReplies : TRUE)
       IN job' = IF r.posted
                 THEN [phase |-> "posted", request_type |-> job.request_type,
                       prompt |-> job.prompt, options |-> job.options,
                       url |-> r.url, body |-> r.body]
                 ELSE [phase |-> "done", request_type |-> job.request_type,
                       prompt |-> job.prompt, options |-> job.options,
                       posted |-> FALSE, result |-> r.result]
    /\ UNCHANGED node

\* The backend answers (or the call fails) and the method returns.
Answer ==
    /\ job.phase = "posted"
    /\ \E reply \in BackendReplies :
         job' = [phase |-> "done", request_type |-> job.request_type,
                 prompt |-> job.prompt, options |-> job.options,
                 posted |-> TRUE, url |-> job.url, body |-> job.body,
                 reply |-> reply,
                 result |-> route_request(job.request_type, job.prompt,
                                          job.options, reply).result]
    /\ UNCHANGED node

NextBuild ==
    \/ Route
    \/ Answer

SpecBuild == InitBuild /\ [][NextBuild]_vars


\* ===================================================== notions of the claims
\* The decoded content of a message.
Decoded(m) == JsonLoads(Get(m, "content", "{}"))

\* Content that raises while it is decoded or read: not JSON, or JSON that
\* is not an object.
Malformed(m) == ~Decoded(m).ok \/ ~Decoded(m).isdict

\* A JSON object whose type is inference_request.
IsRequest(m) ==
    /\ ~Malformed(m)
    /\ Get(Decoded(m).val, "type", NoneVal) = "inference_request"

\* A JSON object of another type, or of none.
IsForeign(m) == ~Malformed(m) /\ ~IsRequest(m)

RequestKind(m) == Get(Decoded(m).val, "request_type", NoneVal)

\* The positions of the log that hold an event `op` of message p.
EventsOf(op, p) ==
    { k \in 1..Len(events) : events[k].op = op /\ events[k].pos = p }

Processed(p) == EventsOf("process", p) # {}
Submitted(p) == EventsOf("submit", p) # {}
Sent(p) == EventsOf("send", p) # {}

\* All send events of the cycle.
Sends == { k \in 1..Len(events) : events[k].op = "send" }

\* The cycle is over and its log is complete: the loop is about to sleep.
CycleEnded == pc \in {"sleep", "backoff"}

\* The loop has finished with message p of the current batch and moved on.
Done(p) ==
    /\ pc \in {"dispatch", "submit", "respond", "sleep", "backoff"}
    /\ p \in 1..Len(messages)
    /\ p < idx

\* ------------------------------------------------------------------- C1
\* C1: at the end of a cycle, every message that follows a malformed one
\* in the batch has been passed to process_inference_request and, when it
\* is an inference_request, has had its response sent.
C1_FailureIsolated ==
    CycleEnded =>
      \A i \in 1..Len(messages) :
        Malformed(messages[i]) =>
          \A j \in (i + 1)..Len(messages) :
            /\ Processed(j)
            /\ IsRequest(messages[j]) => Sent(j)

\* ------------------------------------------------------------------- C2
\* C2: a cycle over a batch of N messages, M of them malformed and the rest
\* inference requests, ends with exactly N - M response sends.
C2_SendsAreWellFormedCount ==
    (/\ CycleEnded
     /\ \A i \in 1..Len(messages) :
          Malformed(messages[i]) \/ IsRequest(messages[i]))
    => Cardinality(Sends)
         = Cardinality({ i \in 1..Len(messages) : IsRequest(messages[i]) })

\* ------------------------------------------------------------------- C3
\* C3: once the loop is done with an inference_request whose request_type
\* is unknown or missing, exactly one response was sent for it, to its
\* sender, with an error result, and nothing was posted to the backend
\* for it; the backend is never asked on behalf of such a message.
UnknownKindRequest(m) == IsRequest(m) /\ RequestKind(m) \notin KnownKinds

C3_UnknownKindAnswered ==
    /\ \A p \in 1..Len(messages) :
         (Done(p) /\ UnknownKindRequest(messages[p])) =>
           /\ Cardinality(EventsOf("send", p)) = 1
           /\ \A k \in EventsOf("send", p) :
                /\ events[k].payload.recipient = Get(messages[p], "sender", NoneVal)
                /\ ResultStatus(events[k].payload.content.response) = "error"
           /\ ~Submitted(p)
    /\ (pc = "submit" => ~UnknownKindRequest(messages[idx]))

C3_Witness ==
    \E p \in 1..Len(messages) :
      Done(p) /\ UnknownKindRequest(messages[p]) /\ Sent(p)

\* ------------------------------------------------------------------- C4
\* C4: when stop() was called while a cycle was in progress (polling or
\* dispatching), that cycle still ends with every message of its batch
\* processed and every inference request of it answered.
C4_CycleCompletesAfterStop ==
    (stopAt \in {"poll", "dispatch", "submit", "respond"} /\ CycleEnded) =>
      \A p \in 1..Len(messages) :
        /\ Processed(p)
        /\ IsRequest(messages[p]) => Sent(p)

\* C4, second part: once stop() was called during the loop, the loop
\* condition is never passed again, and a stopped loop stays stopped.
C4_NoLaterPoll ==
    [][/\ (stopInLoop /\ pc = "head") => pc' \in {"head", "stopped"}
       /\ pc = "stopped" => pc' = "stopped"]_vars

\* C4, third part: after a stop() during the loop, the loop reaches Stopped.
C4_EventuallyStopped == stopInLoop ~> (pc = "stopped")

\* ------------------------------------------------------------------- C5
\* C5: after a registration call that failed (exception or non-200 status)
\* start() has returned, and nothing was announced, polled, submitted or
\* sent, and the loop was not entered.
C5_FailedRegistrationAborts ==
    registered = "failed" =>
      /\ pc = "aborted"
      /\ announced = 0
      /\ ~polled
      /\ events = <<>>
      /\ inflight = 0
      /\ ~running

C5_Witness == registered = "failed" /\ pc = "aborted" /\ stopCalled

\* ------------------------------------------------------------------- C6
\* C6: the loop is left only through its condition, after stop() made it
\* false; an exception that reaches the loop body goes to the handler, the
\* handler sleeps the back-off interval and returns to the loop condition,
\* which starts another cycle while running holds.
C6_LoopSurvivesErrors ==
    [][/\ (pc \in LoopPcs /\ pc' \notin LoopPcs) =>
            (pc = "head" /\ ~running /\ stopInLoop /\ pc' = "stopped")
       /\ (/\ pc = "respond"
           /\ Truthy(response)
           /\ send_response(messages[idx], response).raised
           /\ pc' # pc) => pc' = "backoff"
       /\ (pc = "poll" /\ pc' \notin {"poll", "sleep", "dispatch"}) =>
            pc' = "backoff"
       /\ (pc = "backoff" /\ pc' # pc) =>
            (pc' = "head" /\ sleeps' = Append(sleeps, BackoffInterval))
       /\ (pc = "head" /\ running /\ pc' # pc) => pc' = "poll"]_vars

\* A cycle was cut short by an exception and the loop is polling again.
C6_Witness == pc = "poll" /\ sleeps = <<BackoffInterval>> /\ polled

\* ------------------------------------------------------------------- C7
\* C7: when the backend answered a submission with a non-success status or
\* the call raised, the result is an error result with a cause, it is sent
\* once to the sender of the request, and no exception reaches the loop:
\* the loop moves on to the next message.
FailedReply(p) ==
    \E k \in EventsOf("reply", p) : events[k].exc \/ events[k].status # HttpOk

C7_BackendFailureReported ==
    /\ \A p \in 1..Len(messages) :
         (Done(p) /\ FailedReply(p)) =>
           /\ Cardinality(EventsOf("send", p)) = 1
           /\ \A k \in EventsOf("send", p) :
                /\ events[k].payload.recipient = Get(messages[p], "sender", NoneVal)
                /\ ResultStatus(events[k].payload.content.response) = "error"
                /\ events[k].payload.content.response.error # ""
    /\ (pc = "respond" /\ FailedReply(idx)) =>
         (ResultStatus(response) = "error" /\ Truthy(response))
    /\ (pc = "backoff" /\ idx \in 1..Len(messages)) => ~FailedReply(idx)

\* A failed submission was answered and the loop is at the next message.
C7_Witness ==
    \E p \in 1..Len(messages) :
      Done(p) /\ FailedReply(p) /\ Sent(p) /\ pc = "dispatch" /\ idx = p + 1

\* ------------------------------------------------------------------- C8
\* The result the loop computed for message p: what
\* process_inference_request returns on it, given the backend's reply when
\* the backend was asked.
ResultFor(p) ==
    IF EventsOf("reply", p) = {}
    THEN process_inference_request(messages[p],
                                   CHOOSE r \in BackendReplies : TRUE).result
    ELSE LET e == events[CHOOSE k \in EventsOf("reply", p) : TRUE]
             r == CHOOSE x \in BackendReplies :
                    x.exc = e.exc /\ x.status = e.status
         IN process_inference_request(messages[p], r).result

\* C8: every response sent answers one message of the polled batch that the
\* loop has finished with: its recipient is that message's sender, its
\* original_request is that message's decoded content, its response is the
\* result computed for that message; and the sends of a cycle are for
\* strictly increasing positions, so no message is answered twice.
C8_Correlated ==
    /\ \A k \in Sends :
         LET e == events[k] IN
         /\ e.pos \in 1..Len(messages)
         /\ e.pos < idx
         /\ e.payload.recipient = Get(messages[e.pos], "sender", NoneVal)
         /\ e.payload.content.type = "inference_response"
         /\ Decoded(messages[e.pos]).ok
         /\ e.payload.content.original_request = Decoded(messages[e.pos]).val
         /\ e.payload.content.response = ResultFor(e.pos)
    /\ \A k, l \in Sends : k < l => events[k].pos < events[l].pos

\* Two responses of one cycle went to two different senders.
C8_Witness ==
    \E k, l \in Sends :
      /\ k < l
      /\ events[k].payload.recipient # events[l].payload.recipient
      /\ "status" \in DOMAIN events[l].payload.content.response

\* ------------------------------------------------------------------- C9
\* C9: the log of a cycle is in arrival order (positions never decrease),
\* between the backend submissions of two messages lies the send of the
\* first one's response, and at most one submission is in flight, namely
\* while the thread waits for the backend's reply.
C9_Serialized ==
    /\ inflight \in 0..1
    /\ (inflight = 1) <=> (pc = "submit")
    /\ \A k, l \in 1..Len(events) :
         k < l => events[k].pos <= events[l].pos
    /\ \A k, l \in 1..Len(events) :
         (k < l /\ events[k].op = "submit" /\ events[l].op = "submit") =>
           /\ events[k].pos < events[l].pos
           /\ \E m \in (k + 1)..(l - 1) :
                events[m].op = "send" /\ events[m].pos = events[k].pos

\* Message 1 was submitted and answered, and the submission of message 2
\* is in flight.
C9_Witness ==
    /\ pc = "submit"
    /\ inflight = 1
    /\ idx = 2
    /\ Submitted(1) /\ Sent(1) /\ Submitted(2)

\* ------------------------------------------------------------------ C10
\* C10: a message whose content is a JSON object of another type (or of no
\* type) is never submitted to the backend and never answered, handling it
\* never ends in the back-off handler, and the loop goes on to the message
\* after it.
C10_ForeignSkipped ==
    /\ \A p \in 1..Len(messages) :
         IsForeign(messages[p]) =>
           /\ ~Submitted(p)
           /\ ~Sent(p)
           /\ (Done(p) /\ p < Len(messages)) =>
                (Processed(p + 1) \/ (pc = "dispatch" /\ idx = p + 1))
    /\ (pc \in {"submit", "backoff"} /\ idx \in 1..Len(messages)) =>
         ~IsForeign(messages[idx])
    /\ (pc = "respond" /\ IsForeign(messages[idx])) => IsNone(response)

\* A foreign message was skipped and the message after it was answered.
C10_Witness ==
    \E p \in 1..Len(messages) :
      /\ Done(p)
      /\ IsForeign(messages[p])
      /\ Processed(p)
      /\ p < Len(messages)
      /\ Sent(p + 1)

\* ------------------------------------------------------------------ C11
\* The poll event of the cycle in progress.
PollEvent == events[1]
InCycle == events # <<>>

\* C11: check_mesh_messages lets no exception out; without an assigned id
\* it returns the empty list and issues no GET; when the GET raised or was
\* answered with a status other than 200 it returns the empty list; on a
\* 200 it returns the messages of the reply.
C11_PollDegradesToEmpty ==
    InCycle =>
      /\ PollEvent.op = "poll"
      /\ ~PollEvent.raised
      /\ PollEvent.contacted <=> (mesh_agent_id # NoneVal)
      /\ ~PollEvent.contacted => messages = <<>>
      /\ (PollEvent.contacted /\ (PollEvent.exc \/ PollEvent.status # HttpOk))
           => messages = <<>>
      /\ (PollEvent.contacted /\ ~PollEvent.exc /\ PollEvent.status = HttpOk)
           => messages = PollEvent.offered

\* The mesh answered 500 with a body that names messages, and the poll
\* returned none of them and the loop went to its normal sleep.
C11_Witness ==
    /\ InCycle
    /\ PollEvent.status = 500
    /\ PollEvent.offered # <<>>
    /\ messages = <<>>
    /\ pc = "sleep"

\* ------------------------------------------------------------------ C12
\* A step in which register_with_mesh assigns self.mesh_agent_id.
WriteStep == pc = "register" /\ pc' # pc /\ registered' = "ok"

\* C12 as stated: mesh_agent_id is None until registration, is assigned
\* once over the node's lifetime, by a successful registration response,
\* and no operation changes it afterwards, a further start() included.
C12_WrittenOnce ==
    [][/\ mesh_agent_id' # mesh_agent_id => WriteStep
       /\ mesh_agent_id # NoneVal => (mesh_agent_id' = mesh_agent_id
                                      /\ ~WriteStep)]_vars

\* C12, amended: mesh_agent_id is None until a registration got a 200; it
\* changes only in a step of register_with_mesh that got a 200 (each such
\* call assigns it, a further start() too), and announce, poll, dispatch,
\* send, stop and a failed registration leave it as it is.
C12_WrittenOnlyByRegistration ==
    /\ [](registered = "none" => mesh_agent_id = NoneVal)
    /\ [][mesh_agent_id' # mesh_agent_id => WriteStep]_vars

\* A second start(), on a node that holds an id and has polled, has
\* registered again and is about to announce.
C12_Witness ==
    /\ pc = "broadcast"
    /\ registered = "ok"
    /\ polled
    /\ mesh_agent_id = "node-7"

\* ------------------------------------------------------------------ C13
\* Idle (the loop head and its sleeps), Polling and Dispatching.
InLoop == pc \in LoopPcs

\* C13: whenever the loop is idle, polling or dispatching, the registration
\* succeeded and mesh_agent_id is not None, so every poll issues its GET; a
\* registration reply without an id does not let the node into the loop.
C13_LoopHoldsId ==
    /\ InLoop => (registered = "ok" /\ mesh_agent_id # NoneVal)
    /\ InCycle => PollEvent.contacted

\* The part of C13 that holds: the loop is entered only after a
\* registration answered with status 200.
C13_LoopAfterRegistration == InLoop => registered = "ok"

\* ------------------------------------------------------------------ C14
\* The results dispatch has produced in the cycle in progress: the one
\* about to be answered and the ones already sent.
ProducedResults ==
    (IF pc = "respond" /\ ~IsNone(response) THEN {response} ELSE {})
    \cup { events[k].payload.content.response : k \in Sends }

\* The result names the backend's job.
HasHandle(r) == "prompt_id" \in DOMAIN r /\ r.prompt_id # NoneVal

\* The result names a cause of failure.
HasDetail(r) == "error" \in DOMAIN r /\ r.error # ""

JobPosted == job.phase \in {"posted", "done"} /\ "url" \in DOMAIN job
JobQueued == job.phase = "done" /\ job.posted /\ ~job.reply.exc
             /\ job.reply.status = HttpOk

\* C15: image and video requests are posted to /api/prompt only and a 200
\* gives status queued with the backend's prompt_id; a distributed request
\* is posted to /distributed/queue only, with the prompt as the job graph,
\* worker_ids as enabled_worker_ids (empty when absent), delegate_master
\* from the options (false when absent), and a 200 gives
\* distributed_queued with the backend's prompt_id and a worker count.
C15_RoutedByKind ==
    /\ (JobPosted /\ job.request_type \in {"image_generation",
                                           "video_generation"})
         => /\ job.url = "/api/prompt"
            /\ JobQueued => job.result =
                              [status |-> "queued",
                               prompt_id |-> job.reply.data.prompt_id]
    /\ (job.phase # "none" /\ job.request_type = "distributed_inference")
         => /\ job.phase # "asked" => JobPosted
            /\ JobPosted =>
                 /\ job.url = "/distributed/queue"
                 /\ job.body.prompt = job.prompt
                 /\ job.body.enabled_worker_ids =
                      (IF "worker_ids" \in DOMAIN job.options
                       THEN job.options.worker_ids ELSE <<>>)
                 /\ job.body.delegate_master =
                      (IF "delegate_master" \in DOMAIN job.options
                       THEN job.options.delegate_master ELSE FALSE)
            /\ JobQueued =>
                 /\ job.result.status = "distributed_queued"
                 /\ job.result.prompt_id = job.reply.data.prompt_id
                 /\ job.result.worker_count = job.reply.data.worker_count
    /\ (job.phase # "none" /\ job.request_type \notin KnownKinds)
         => ~JobPosted

\* A distributed request without worker_ids and without delegate_master
\* was queued.
C15_Witness ==
    /\ JobQueued
    /\ job.request_type = "distributed_inference"
    /\ "worker_ids" \notin DOMAIN job.options
    /\ "delegate_master" \notin DOMAIN job.options
    /\ job.body.enabled_worker_ids = <<>>
    /\ job.result.status = "distributed_queued"

\* ------------------------------------------------------------------ C18
\* The options of an image request, the input of the job graph each one
\* sets, and the value that input has when the option is absent.
ImageOptions ==
    {"seed", "steps", "cfg", "sampler", "width", "height", "filename",
     "model"}
GraphInput ==
    [seed |-> "seed", steps |-> "steps", cfg |-> "cfg",
     sampler |-> "sampler_name", width |-> "width", height |-> "height",
     filename |-> "filename_prefix", model |-> "ckpt_name"]
ImageDefault ==
    [seed |-> 42, steps |-> 20, cfg |-> 8, sampler |-> "euler",
     width |-> 1024, height |-> 1024, filename |-> "mesh_generated",
     model |-> "sd_xl_base_1.0.safetensors"]

\* An image request whose job graph was built and posted.
ImagePosted == JobPosted /\ job.request_type = "image_generation"

\* C18: for an image_generation request and any subset of the options
\* seed, steps, cfg, sampler, width, height, filename, model, the job graph
\* carries the supplied value of each supplied option and the default of
\* each absent one (seed 42, steps 20, cfg 8, sampler euler, width and
\* height 1024); with none of them and a 200 from the backend the result
\* is status queued with the backend's prompt_id.
C18_ImageDefaults ==
    ImagePosted =>
      /\ \A k \in ImageOptions :
           job.body.prompt[GraphInput[k]] =
             (IF k \in DOMAIN job.options THEN job.options[k]
              ELSE ImageDefault[k])
      /\ (JobQueued /\ DOMAIN job.options \cap ImageOptions = {})
           => job.result = [status |-> "queued",
                            prompt_id |-> job.reply.data.prompt_id]

\* An image request that supplies steps and width only was queued.
C18_Witness ==
    /\ ImagePosted
    /\ JobQueued
    /\ DOMAIN job.options = {"steps", "width"}
    /\ job.body.prompt.steps = 30
    /\ job.body.prompt.seed = 42

\* ------------------------------------------------------------------ C16
\* C16: a failed announcement is not fatal.  After a registration that
\* succeeded start() announces once, whatever the outcome goes on to
\* listen_for_requests and polls, and the announcement is not repeated.
C16_AnnouncementNotFatal ==
    /\ [](/\ announced <= 1
          /\ pc \in {"listen"} \cup LoopPcs \cup {"stopped"} => announced = 1
          /\ announceResult = "none" <=> announced = 0)
    /\ [][/\ (pc = "broadcast" /\ pc' # pc) => pc' = "listen"
          /\ (pc = "listen" /\ pc' # pc) => pc' = "head"
          /\ (pc = "head" /\ pc' # pc /\ ~stopCalled) => pc' = "poll"]_vars

\* The node that announces keeps going: once announced without success,
\* and not stopped, it polls.
C16_PollsAfterFailedAnnouncement ==
    (announceResult = "failed" /\ ~stopCalled) ~> (polled \/ stopCalled)

\* The announcement failed and the loop has polled.
C16_Witness ==
    /\ announceResult = "failed"
    /\ announced = 1
    /\ polled
    /\ InCycle
    /\ PollEvent.contacted

\* ------------------------------------------------------------------ C17
\* The positions whose response met a transport failure in send_response.
FailedSends ==
    { p \in 1..Len(messages) :
        \E k \in EventsOf("send", p) : ~events[k].delivered }

\* C17: when the POST of send_response fails, the failure is only logged:
\* the response is not sent again, the messages that follow in the batch
\* are still dispatched, and the cycle ends with the normal sleep, not
\* with the back-off.
C17_SendBestEffort ==
    \A p \in FailedSends :
      /\ Cardinality(EventsOf("send", p)) = 1
      /\ CycleEnded =>
           /\ pc = "sleep"
           /\ \A q \in (p + 1)..Len(messages) : Processed(q)

\* The part of C17 that holds: a failed send is made once, and the loop
\* goes on from it as from a delivered one, to the next message or, after
\* the last message, to the normal sleep.
C17_FailedSendContained ==
    \A p \in FailedSends :
      /\ Cardinality(EventsOf("send", p)) = 1
      /\ Done(p)
      /\ p = Len(messages) => pc = "sleep"
      /\ (p < Len(messages) /\ idx = p + 1)
           => pc \in {"dispatch", "submit", "respond", "backoff"}
      /\ (p < Len(messages) /\ pc # "dispatch") => Processed(p + 1)

\* ------------------------------------------------------------------ C19
\* Every message of the batch was handled and none raised into the loop.
CycleCompleted ==
    /\ InCycle
    /\ idx = Len(messages) + 1
    /\ \A p \in 1..Len(messages) : Processed(p)
    /\ PollEvent.iterable

\* An exception reached the loop: while iterating what the poll returned,
\* or while message idx was being answered.
CycleCutShort ==
    /\ InCycle
    /\ \/ ~PollEvent.iterable
       \/ idx <= Len(messages) /\ Processed(idx) /\ ~Sent(idx)

\* C19: between two consecutive polls the loop sleeps once: 10 s when the
\* cycle before handled its whole batch without an exception reaching the
\* loop, 30 s when such an exception cut it short.
C19_OneSleepBetweenPolls ==
    /\ [](/\ (pc \in {"head", "poll"} /\ polled) =>
               \E t \in {PollInterval, BackoffInterval} : sleeps = <<t>>
          /\ pc \in {"dispatch", "submit", "respond", "sleep", "backoff"}
               => sleeps = <<>>
          /\ pc = "sleep" => CycleCompleted
          /\ pc = "backoff" => (CycleCutShort /\ ~CycleCompleted))
    /\ [][/\ (pc = "sleep" /\ pc' # pc)
               => (sleeps' = <<PollInterval>> /\ pc' = "head")
          /\ (pc = "backoff" /\ pc' # pc)
               => (sleeps' = <<BackoffInterval>> /\ pc' = "head")
          /\ (pc = "poll" /\ pc' # pc) => sleeps' = <<>>]_vars

\* A second poll is about to follow a cycle that was cut short.
C19_Witness ==
    /\ pc = "poll"
    /\ polled
    /\ sleeps = <<BackoffInterval>>
    /\ messages # <<>>
    /\ idx <= Len(messages)

\* ------------------------------------------------------------------ C20
\* C20: a stop() called at any point after start() was invoked, the
\* registration and the announcement included, is not lost: no poll is
\* started after the call beyond the cycle in progress.
C20_StopNeverLost ==
    [][(stopCalled /\ pc = "head") => pc' # "poll"]_vars

\* C20, the second half: after such a stop() the node reaches Stopped
\* (or never entered the loop because the registration failed).
C20_StopLeadsToStopped ==
    stopCalled ~> (pc \in {"stopped", "aborted"})

\* The part of C20 that holds: a stop() that finds the loop running
\* is not lost.
C20_StopInLoopKept ==
    [][(stopInLoop /\ pc = "head") => pc' = "stopped"]_vars

====
